---- MODULE Spec2Model ----
(***************************************************************************)
(* ConnectHUB real-time chat gateway (src/server.js), its conversation     *)
(* store (src/models/Message.js) and the Redis recent-message cache.       *)
(*                                                                         *)
(* Identities are MongoDB ObjectIds: fixed-width 24-digit hex strings, so  *)
(* the lexical order used by Array.prototype.sort coincides with numeric   *)
(* order; an identity is modelled by a positive number.  A socket id is a  *)
(* positive number, 0 stands for "absent" (Map.get returning undefined).   *)
(* A client may write the 24 digits of an identity with upper-case letters *)
(* (A-F): that string is modelled by the negated number.                   *)
(***************************************************************************)
EXTENDS Integers, Sequences, FiniteSets, TLC

\* ---------------------------------------------------------------- bounds
NumUsers   == 2      \* identities that hold an account
MaxSockets == 2      \* connection attempts over the life of the process
MaxSends   == 2      \* send:message events received over the life of the process
MaxReads   == 1      \* messages:read handlers in flight at once
MaxCloses  == 2      \* close signals a connection receives
MaxPage    == 2      \* pages requested of a conversation
MaxLimit   == 2      \* page sizes requested besides the default
MaxMsgs    == 3      \* size of the collection past which the HTTP endpoint is not called
MaxThread  == 2      \* messages posted before read receipts are exercised

\* ------------------------------------------------------ program constants
DefaultLimit == 50   \* getConversation: const { page = 1, limit = 50 }
CacheKeep    == 50   \* lTrim(cacheKey, 0, 49) keeps 50 entries
MaxContent   == 2000 \* messageSchema.content.maxlength

Users   == 1..NumUsers
Socks   == 1..MaxSockets
Servers == {"http", "https"}       \* io and httpsIo

NoSock == 0          \* onlineUsers.get(k) === undefined
NoId   == 0          \* receiverId / senderId missing from the payload
BadId  == NumUsers + 1   \* a string that does not cast to an ObjectId
NoMsg  == 0
NoDate == 0

\* --------------------------------------------------------------- strings
\* A string is kept as its run lengths: leading blanks, a core that starts
\* and ends with a non-blank character, trailing blanks.
Str(l, c, t) == [lead |-> l, core |-> c, trail |-> t]
StrLen(s)    == s.lead + s.core + s.trail
\* String.prototype.trim as applied by the schema option trim: true
Trim(s)      == Str(0, s.core, 0)
\* JavaScript truthiness of a string: only "" is falsy
Truthy(s)    == StrLen(s) > 0

Empty == Str(0, 0, 0)                 \* ""
Blank == Str(2, 0, 0)                 \* "  "
Hi    == Str(0, 2, 0)                 \* "Hi"
Long  == Str(0, MaxContent + 1, 0)    \* 2001 characters

Contents == {Empty, Blank, Hi, Long}

\* ---------------------------------------------------------------- tokens
\* The handshake carries no token, a token this server issued to a user, or
\* a forged or expired token naming user 1.
Tokens == {[kind |-> "none", userId |-> NoId], [kind |-> "invalid", userId |-> 1]}
          \cup {[kind |-> "valid", userId |-> u] : u \in Users}

\* (variant: the token is decoded but its signature and expiry are not checked)
verifyAccessTokenDecodeOnly(token) == [ok |-> TRUE, userId |-> token.userId]

\* jwt.verify: returns the claims, or throws for a forged or expired token
verifyAccessToken(token) ==
    IF token.kind = "valid"
    THEN [ok |-> TRUE, userId |-> token.userId]
    ELSE [ok |-> FALSE, userId |-> NoId]

\* socketServer.use(...): next() is called without an error exactly when a
\* token is present and verifyAccessToken does not throw.
setupSocketAuth(token) ==
    IF token.kind = "none"
    THEN [ok |-> FALSE, userId |-> NoId]
    ELSE verifyAccessToken(token)

VARIABLES
    redisClient,   \* "client" or "null" (REDIS_ENABLED=false exports null)
    proc,          \* "running", "closing" (httpServer.close pending), "exited"
    socks,         \* socket id -> connection record
    nextSock,      \* number of connection attempts so far
    onlineUsers,   \* the Map of server.js:123, identity -> socket id
    tasks,         \* send:message handler invocations, in receipt order
    reads,         \* messages:read handler invocations awaiting markAsRead
    store,         \* the messages collection, in insertion order
    now,           \* the clock that stamps createdAt / readAt
    cache,         \* Redis lists messages:<conversationId>, head first
    fault,         \* the listener whose exception reached a process-level handler
    autoReplies,   \* processAutoReply invocations, in call order
    transient,     \* the last typing / messages:read event handled, and what it emitted
    trial          \* the last call of generateReply: its argument and its result

vars == <<redisClient, proc, socks, nextSock, onlineUsers, tasks, reads,
          store, now, cache, fault, autoReplies, transient, trial>>


\* ------------------------------------------------------ conversation store
\* (variant: the two identities are joined in argument order)
getConversationIdUnsorted(user1Id, user2Id) == <<user1Id, user2Id>>

\* The 24 hex digits of an identity written with upper-case letters
UpperHex(u) == 0 - u

\* The default comparison of Array.prototype.sort on two id strings (UTF-16
\* code units: digits, then upper-case letters, then lower-case letters).
\* Identities are taken to have a hex letter before the first digit in which
\* two of them differ, so an upper-case string sorts before every lower-case
\* one; two strings of the same case sort as their numbers.
SortsBefore(a, b) ==
    IF a < 0 /\ b < 0 THEN UpperHex(a) <= UpperHex(b)
    ELSE IF a < 0 \/ b < 0 THEN a < 0
    ELSE a <= b

\* messageSchema.statics.getConversationId: [a.toString(), b.toString()].sort()
\* joined by "_"; the joined string is kept as the ordered pair.
getConversationId(user1Id, user2Id) ==
    IF SortsBefore(user1Id, user2Id) THEN <<user1Id, user2Id>> ELSE <<user2Id, user1Id>>

ConvIds == {getConversationId(a, b) : a \in Users, b \in Users}

\* Mongoose's cast of a value to the ObjectId type of sender / receiver:
\* new ObjectId(value.toString()), which reads the hex digits in either
\* case; the ObjectId prints in lower case.
castObjectId(x) == IF x < 0 THEN UpperHex(x) ELSE x

\* The cast succeeds
IsObjectId(x) == castObjectId(x) \in Users

\* (variant: the validators see the content before the trim setter ran)
ContentValidNoTrim(content) ==
    Truthy(content) /\ StrLen(content) >= 1 /\ StrLen(content) <= MaxContent

\* Schema validation of content after the trim setter: required (a string of
\* length 0 fails), minlength 1, maxlength 2000.
ContentValid(content) ==
    LET c == Trim(content) IN Truthy(c) /\ StrLen(c) >= 1 /\ StrLen(c) <= MaxContent

\* Message.create validation: the document is inserted only if it passes
CreateValid(receiverId, content) == IsObjectId(receiverId) /\ ContentValid(content)

\* messageSchema.pre('save'): runs when a document is saved (create, save),
\* not on update queries
PreSave(doc) ==
    IF Cardinality(doc.deletedBy) >= 2 THEN [doc EXCEPT !.isDeleted = TRUE] ELSE doc

\* The document Message.create inserts for the fields its caller passes:
\* sender and receiver are cast to ObjectId, content is trimmed,
\* conversationId is the string the caller computed (defaults: isRead false,
\* isDeleted false, deletedBy [])
NewMessage(id, sender, receiverId, content, conversationId, at) ==
    PreSave([id |-> id, sender |-> castObjectId(sender),
             receiver |-> castObjectId(receiverId),
             content |-> Trim(content), isRead |-> FALSE, readAt |-> NoDate,
             isDeleted |-> FALSE, deletedBy |-> {},
             conversationId |-> conversationId,
             createdAt |-> at])

\* find({ conversationId, deletedBy: { $nin: [userId] } }): the matching
\* documents, in natural (insertion) order
RECURSIVE FindVisible(_, _, _)
FindVisible(docs, conversationId, userId) ==
    IF docs = <<>> THEN <<>>
    ELSE LET m    == Head(docs)
             rest == FindVisible(Tail(docs), conversationId, userId)
         IN  IF m.conversationId = conversationId /\ userId \notin m.deletedBy
             THEN <<m>> \o rest
             ELSE rest

\* .sort({ createdAt: 1 }): ascending, ties left in natural order
RECURSIVE InsertAsc(_, _)
InsertAsc(sorted, m) ==
    IF sorted = <<>> THEN <<m>>
    ELSE LET last == sorted[Len(sorted)] IN
         IF last.createdAt <= m.createdAt THEN Append(sorted, m)
         ELSE Append(InsertAsc(SubSeq(sorted, 1, Len(sorted) - 1), m), last)

RECURSIVE SortAscFrom(_, _)
SortAscFrom(sorted, rest) ==
    IF rest = <<>> THEN sorted
    ELSE SortAscFrom(InsertAsc(sorted, Head(rest)), Tail(rest))

SortAsc(seq) == SortAscFrom(<<>>, seq)

Min(a, b) == IF a <= b THEN a ELSE b

\* (variant: the page runs one position too far)
SkipLimitInclusive(seq, skip, limit) ==
    IF skip >= Len(seq) THEN <<>>
    ELSE SubSeq(seq, skip + 1, Min(Len(seq), skip + limit + 1))

\* .skip(n).limit(k)
SkipLimit(seq, skip, limit) ==
    IF skip >= Len(seq) THEN <<>>
    ELSE SubSeq(seq, skip + 1, Min(Len(seq), skip + limit))

\* (variant: skip computed as page * limit)
getConversationSkipOff(docs, user1Id, user2Id, page, limit) ==
    LET conversationId == getConversationId(user1Id, user2Id)
    IN  SkipLimit(SortAsc(FindVisible(docs, conversationId, user1Id)),
                  page * limit, limit)

\* messageSchema.statics.getConversation
getConversation(docs, user1Id, user2Id, page, limit) ==
    LET conversationId == getConversationId(user1Id, user2Id)
    IN  SkipLimit(SortAsc(FindVisible(docs, conversationId, user1Id)),
                  (page - 1) * limit, limit)

\* (variant: the filter does not ask for receiver: userId)
markAsReadAnyReceiver(docs, conversationId, userId, at) ==
    [k \in 1..Len(docs) |->
        IF docs[k].conversationId = conversationId /\ docs[k].isRead = FALSE
        THEN [docs[k] EXCEPT !.isRead = TRUE, !.readAt = at]
        ELSE docs[k]]

\* (variant: the filter does not ask for isRead: false)
markAsReadRestamp(docs, conversationId, userId, at) ==
    [k \in 1..Len(docs) |->
        IF docs[k].conversationId = conversationId /\ docs[k].receiver = userId
        THEN [docs[k] EXCEPT !.isRead = TRUE, !.readAt = at]
        ELSE docs[k]]

\* messageSchema.statics.markAsRead: updateMany on the unread messages of the
\* conversation addressed to userId
markAsRead(docs, conversationId, userId, at) ==
    [k \in 1..Len(docs) |->
        IF /\ docs[k].conversationId = conversationId
           /\ docs[k].receiver = userId
           /\ docs[k].isRead = FALSE
        THEN [docs[k] EXCEPT !.isRead = TRUE, !.readAt = at]
        ELSE docs[k]]

\* messageSchema.statics.deleteForUser: findByIdAndUpdate with $addToSet; an
\* update query, so the save hook does not run
deleteForUser(docs, messageId, userId) ==
    [k \in 1..Len(docs) |->
        IF docs[k].id = messageId
        THEN [docs[k] EXCEPT !.deletedBy = @ \cup {userId}]
        ELSE docs[k]]

\* $match of getUserConversations: sent or received by userId and not
\* soft-deleted by userId, in natural order
RECURSIVE MatchUser(_, _)
MatchUser(docs, userId) ==
    IF docs = <<>> THEN <<>>
    ELSE LET m    == Head(docs)
             rest == MatchUser(Tail(docs), userId)
         IN  IF (m.sender = userId \/ m.receiver = userId) /\ userId \notin m.deletedBy
             THEN <<m>> \o rest
             ELSE rest

\* $sort: { createdAt: -1 }
RECURSIVE InsertDesc(_, _)
InsertDesc(sorted, m) ==
    IF sorted = <<>> THEN <<m>>
    ELSE LET last == sorted[Len(sorted)] IN
         IF last.createdAt >= m.createdAt THEN Append(sorted, m)
         ELSE Append(InsertDesc(SubSeq(sorted, 1, Len(sorted) - 1), m), last)

RECURSIVE SortDescFrom(_, _)
SortDescFrom(sorted, rest) ==
    IF rest = <<>> THEN sorted
    ELSE SortDescFrom(InsertDesc(sorted, Head(rest)), Tail(rest))

SortDesc(seq) == SortDescFrom(<<>>, seq)

\* (variant: the $cond counts every unread message of the group)
UnreadAnyReceiver(m, userId) == IF m.isRead = FALSE THEN 1 ELSE 0

\* $cond: [{ $and: [receiver = userId, isRead = false] }, 1, 0]
Unread(m, userId) == IF m.receiver = userId /\ m.isRead = FALSE THEN 1 ELSE 0

\* $group by conversationId: lastMessage is $first of the sorted input,
\* unreadCount the $sum of the $cond
RECURSIVE GroupFrom(_, _, _)
GroupFrom(groups, rest, userId) ==
    IF rest = <<>> THEN groups
    ELSE LET m == Head(rest)
             hit == {g \in 1..Len(groups) : groups[g].id = m.conversationId}
         IN  IF hit = {}
             THEN GroupFrom(Append(groups, [id |-> m.conversationId, lastMessage |-> m,
                                            createdAt |-> m.createdAt,
                                            unreadCount |-> Unread(m, userId)]),
                            Tail(rest), userId)
             ELSE GroupFrom([g \in 1..Len(groups) |->
                                IF g \in hit
                                THEN [groups[g] EXCEPT !.unreadCount = @ + Unread(m, userId)]
                                ELSE groups[g]],
                            Tail(rest), userId)

\* messageSchema.statics.getUserConversations: $match, $sort, $group, then
\* $sort: { 'lastMessage.createdAt': -1 } (createdAt of a summary is that key)
getUserConversations(docs, userId) ==
    SortDesc(GroupFrom(<<>>, SortDesc(MatchUser(docs, userId)), userId))

\* (variant: the count does not leave out what userId soft-deleted)
getUnreadCountWithDeleted(docs, userId) ==
    Cardinality({k \in 1..Len(docs) : docs[k].receiver = userId /\ docs[k].isRead = FALSE})

\* messageSchema.statics.getUnreadCount: countDocuments({ receiver: userId,
\* isRead: false, deletedBy: { $nin: [userId] } })
getUnreadCount(docs, userId) ==
    Cardinality({k \in 1..Len(docs) :
                    /\ docs[k].receiver = userId
                    /\ docs[k].isRead = FALSE
                    /\ userId \notin docs[k].deletedBy})

MsgById(id) == store[id]


\* ----------------------------------------------------- presence lookups
\* Sockets currently connected to one Socket.IO server
OpenOn(srv) == {x \in Socks : socks[x].st = "open" /\ socks[x].srv = srv}

\* socketServer.to(room).emit(...): the room named after a socket id holds
\* that socket while it is connected to this server, and nothing otherwise.
InRoom(srv, room) == {x \in OpenOn(srv) : x = room}

\* onlineUsers.get(key)
Lookup(key) == IF key \in DOMAIN onlineUsers THEN onlineUsers[key] ELSE NoSock

\* Array.from(onlineUsers.keys())
OnlineKeys == {u \in DOMAIN onlineUsers : onlineUsers[u] # NoSock}

\* ------------------------------------------------------------------ Init
\* A socket record.  Besides the connection itself it keeps what the
\* listeners of this socket have emitted: closes counts the close signals
\* received, nOffline the user:offline broadcasts made for it and offlineTo
\* their recipients; readFailed tells that a markAsRead call of its
\* messages:read listener rejected, readErrors counts the error events that
\* listener emitted to it and readFailNotices holds the peers it notified
\* after a rejected call.
FreshSock == [st |-> "fresh", token |-> [kind |-> "none", userId |-> NoId],
              userId |-> NoId, srv |-> "http",
              handlers |-> FALSE, joined |-> FALSE, announced |-> FALSE,
              sAdd |-> FALSE,
              closes |-> 0, nOffline |-> 0, offlineTo |-> {},
              readFailed |-> FALSE, readErrors |-> 0, readFailNotices |-> {}]

\* No typing or messages:read event has been handled yet.  on is the event
\* handled, from the socket it arrived on, userId the identity the emitted
\* notification carries, receiverId the identity the payload addresses, reg
\* what onlineUsers.get returned for it, to the sockets the notification was
\* emitted to and marked the messages the call of markAsRead updated.
NoTransient ==
    [on |-> "none", from |-> NoSock, userId |-> NoId, receiverId |-> NoId,
     conversationId |-> <<>>, reg |-> NoSock, to |-> {}, marked |-> {}]

\* generateReply has not been called
NoTrial == [text |-> "", category |-> "none", reply |-> ""]

\* A conversation between identities 1 and 2 that already holds n messages
History(n) ==
    [k \in 1..n |-> NewMessage(k, IF k % 2 = 1 THEN 1 ELSE 2,
                               IF k % 2 = 1 THEN 2 ELSE 1, Hi,
                               getConversationId(1, 2), k)]

InitWith(prior) ==
    /\ redisClient \in {"client", "null"}
    /\ proc = "running"
    /\ socks = [x \in Socks |-> FreshSock]
    /\ nextSock = 0
    /\ onlineUsers = [u \in Users |-> NoSock]
    /\ tasks = <<>>
    /\ reads = <<>>
    /\ store = History(prior)
    /\ now = prior + 1
    /\ cache = [c \in ConvIds |-> <<>>]
    /\ fault = "none"
    /\ autoReplies = <<>>
    /\ transient = NoTransient
    /\ trial = NoTrial

Init == InitWith(0)

\* ------------------------------------------------------- process handlers
Alive == proc # "exited"

\* process.exit(1): the sockets, the presence map, the pending handlers and
\* the pending timers end with the process; the store and the cache are other
\* processes.
ProcessExitFrom(sk) ==
    /\ proc' = "exited"
    /\ socks' = [x \in Socks |->
                    IF sk[x].st = "open" THEN [sk[x] EXCEPT !.st = "closed"] ELSE sk[x]]
    /\ onlineUsers' = [u \in Users |-> NoSock]
    /\ tasks' = <<>>
    /\ reads' = <<>>
    /\ autoReplies' = [k \in 1..Len(autoReplies) |->
                          [autoReplies[k] EXCEPT !.pc = "done"]]

\* process.on('uncaughtException', ...): logs and calls process.exit(1)
UncaughtException(listener, sk) ==
    /\ fault' = listener
    /\ ProcessExitFrom(sk)

\* process.on('unhandledRejection', ...): httpServer.close(callback); the
\* HTTP server stops accepting connections, the callback exits the process.
UnhandledRejection(listener) ==
    /\ fault' = listener
    /\ proc' = "closing"

\* The callback of httpServer.close runs once the HTTP server has no
\* connection left.
ProcessExits ==
    /\ proc = "closing"
    /\ OpenOn("http") = {}
    /\ ProcessExitFrom(socks)
    /\ UNCHANGED <<redisClient, trial, transient, nextSock, store, now, cache, fault>>

\* ------------------------------------------------- connection lifecycle
\* socketServer.emit('user:online', ...): every socket of this server,
\* the new one included
OnlineBroadcast(s, srv) == OpenOn(srv) \cup {s}

\* socketServer.emit('user:offline', ...): the sockets left on this server
OfflineBroadcast(s) == OpenOn(socks[s].srv) \ {s}

\* The 'connection' listener of setupSocketHandlers, up to the registration
\* of the event handlers.  With REDIS_ENABLED=false redisClient is null and
\* redisClient.sAdd throws a TypeError after onlineUsers.set: nothing after
\* line 134 runs and the exception reaches process.on('uncaughtException').
OnConnection(s, token, srv, userId) ==
    IF redisClient = "null"
    THEN UncaughtException("connection",
             [socks EXCEPT ![s] =
                 [FreshSock EXCEPT !.st = "open", !.token = token,
                                   !.userId = userId, !.srv = srv]])
    ELSE /\ onlineUsers' = [onlineUsers EXCEPT ![userId] = s]
         /\ socks' = [socks EXCEPT ![s] =
                [FreshSock EXCEPT !.st = "open", !.token = token,
                                  !.userId = userId, !.srv = srv,
                                  !.handlers = TRUE, !.joined = TRUE,
                                  !.announced = TRUE, !.sAdd = TRUE]]
         /\ UNCHANGED <<proc, tasks, reads, fault, autoReplies>>

\* A client opens a connection to one of the two Socket.IO servers.
Connect(token, srv) ==
    /\ proc = "running" \/ (proc = "closing" /\ srv = "https")
    /\ nextSock < MaxSockets
    /\ LET s    == nextSock + 1
           auth == setupSocketAuth(token)
       IN  /\ nextSock' = s
           /\ IF auth.ok
              THEN OnConnection(s, token, srv, auth.userId)
              ELSE /\ socks' = [socks EXCEPT ![s] =
                          [FreshSock EXCEPT !.st = "refused", !.token = token,
                                            !.srv = srv]]
                   /\ UNCHANGED <<onlineUsers, proc, tasks, reads, fault, autoReplies>>
    /\ UNCHANGED <<redisClient, trial, transient, store, now, cache>>

\* socket.on('disconnect'): the listener deletes the identity's entry and
\* broadcasts user:offline on its own server.
Disconnect(s) ==
    /\ Alive
    /\ socks[s].st = "open"
    /\ socks[s].handlers
    /\ socks' = [socks EXCEPT ![s].st = "closed", ![s].closes = @ + 1,
                              ![s].nOffline = @ + 1,
                              ![s].offlineTo = OfflineBroadcast(s)]
    /\ onlineUsers' = [onlineUsers EXCEPT ![socks[s].userId] = NoSock]
    /\ UNCHANGED <<redisClient, trial, transient, autoReplies, proc, nextSock, tasks, reads, store, now, cache, fault>>

\* (variant: the listener runs again on every close signal)
CloseAgainRunsListener(s) ==
    /\ Alive
    /\ socks[s].st = "closed"
    /\ socks[s].handlers
    /\ socks[s].closes < MaxCloses
    /\ socks' = [socks EXCEPT ![s].closes = @ + 1, ![s].nOffline = @ + 1,
                              ![s].offlineTo = OfflineBroadcast(s)]
    /\ onlineUsers' = [onlineUsers EXCEPT ![socks[s].userId] = NoSock]
    /\ UNCHANGED <<redisClient, trial, transient, autoReplies, proc, nextSock, tasks, reads, store, now,
                   cache, fault>>

\* A further close signal for a socket that has disconnected (the client
\* closes again, the transport closes after the disconnect): the
\* 'disconnect' event has been emitted for this socket, and the listener
\* of server.js:273 is not called a second time.
CloseAgain(s) ==
    /\ Alive
    /\ socks[s].st = "closed"
    /\ socks[s].handlers
    /\ socks[s].closes < MaxCloses
    /\ socks' = [socks EXCEPT ![s].closes = @ + 1]
    /\ UNCHANGED <<redisClient, trial, transient, autoReplies, proc, nextSock, onlineUsers, tasks, reads,
                   store, now, cache, fault>>

\* ------------------------------------------------- send:message handler
\* Payloads of a send:message event; defined = FALSE is an event emitted
\* without a payload (data is undefined).
SendPayloads ==
    {[defined |-> FALSE, receiverId |-> NoId, content |-> Empty]}
    \cup {[defined |-> TRUE, receiverId |-> r, content |-> Hi] : r \in {NoId, BadId}}
    \cup {[defined |-> TRUE, receiverId |-> r, content |-> c] :
             r \in Users, c \in Contents}

\* if (!receiverId || !content): destructuring an undefined payload throws
\* inside the try block and is reported by the same catch.
PayloadRejected(data) ==
    \/ ~data.defined
    \/ data.receiverId = NoId
    \/ ~Truthy(data.content)

\* catch (error) of the handler: socket.emit('message:error', ...)
OuterCatch(t) == [t EXCEPT !.pc = "done", !.nErr = @ + 1]

\* (variant: the cache block has no catch of its own, the outer catch reports)
RedisRethrow(t) == [t EXCEPT !.pc = "done", !.nErr = @ + 1]

\* catch (redisError) of the cache block: console.error only
RedisCatch(t) == [t EXCEPT !.pc = "done"]

\* (variant: a userId field of the payload is taken as the acting identity)
SenderFromPayload(s, data) ==
    IF "userId" \in DOMAIN data THEN data.userId ELSE socks[s].userId

\* socket.userId: the identity the handshake middleware stored on the
\* socket; the listeners read it and never an identity from the payload.
SenderOf(s, data) == socks[s].userId

\* An identity has an open, authenticated connection
HasOpenSocket(u) ==
    \E x \in Socks : socks[x].st = "open" /\ socks[x].userId = u /\ socks[x].handlers

\* The event arrives: the handler runs up to its first await.
SendMessage(s, data) ==
    /\ Alive
    /\ socks[s].st = "open"
    /\ socks[s].handlers
    /\ Len(tasks) < MaxSends
    /\ LET t == [sock |-> s, userId |-> SenderOf(s, data), srv |-> socks[s].srv,
                 data |-> data, pc |-> "create", msg |-> NoMsg,
                 nSent |-> 0, nErr |-> 0, rcvSock |-> NoSock, rcv |-> {},
                 peerOpen |-> FALSE]
       IN  tasks' = Append(tasks, IF PayloadRejected(data) THEN OuterCatch(t) ELSE t)
    /\ UNCHANGED <<redisClient, trial, transient, autoReplies, proc, socks, nextSock, onlineUsers, reads,
                   store, now, cache, fault>>

\* await Message.create(...) settles.  fail is an outage of the store; a
\* document that does not validate is rejected whatever the store does.
\* tick: whether the clock moves on before the next document is stamped.
CreateSettles(i, fail, tick) ==
    /\ Alive
    /\ i \in 1..Len(tasks)
    /\ tasks[i].pc = "create"
    /\ LET t == tasks[i] IN
       IF fail \/ ~CreateValid(t.data.receiverId, t.data.content)
       THEN /\ tasks' = [tasks EXCEPT ![i] = OuterCatch(t)]
            /\ UNCHANGED <<store, now>>
       ELSE /\ store' = Append(store,
                   NewMessage(Len(store) + 1, t.userId, t.data.receiverId,
                              t.data.content,
                              getConversationId(t.userId, t.data.receiverId), now))
            /\ now' = now + tick
            /\ tasks' = [tasks EXCEPT ![i] =
                   [t EXCEPT !.pc = "populate", !.msg = Len(store) + 1,
                             !.peerOpen = HasOpenSocket(t.data.receiverId)]]
    /\ UNCHANGED <<redisClient, trial, transient, autoReplies, proc, socks, nextSock, onlineUsers, reads, cache, fault>>

\* The synchronous stretch after populate: look the receiver up, emit
\* receive:message to its registered socket, emit message:sent to the sender.
Deliver(t) ==
    LET receiverSocketId == Lookup(t.data.receiverId) IN
    [t EXCEPT !.pc = "lPush",
              !.rcvSock = receiverSocketId,
              !.rcv = IF receiverSocketId # NoSock
                      THEN InRoom(t.srv, receiverSocketId) ELSE {},
              !.peerOpen = @ /\ HasOpenSocket(t.data.receiverId),
              !.nSent = @ + 1]

\* await message.populate(...) settles; on success the handler delivers,
\* acknowledges and calls lPush (a TypeError on a null client, caught by the
\* cache block's own catch).
PopulateSettles(i, fail) ==
    /\ Alive
    /\ i \in 1..Len(tasks)
    /\ tasks[i].pc = "populate"
    /\ LET t == tasks[i] IN
       tasks' = [tasks EXCEPT ![i] =
           IF fail THEN OuterCatch(t)
           ELSE IF redisClient = "null" THEN RedisCatch(Deliver(t))
           ELSE Deliver(t)]
    /\ UNCHANGED <<redisClient, trial, transient, autoReplies, proc, socks, nextSock, onlineUsers, reads,
                   store, now, cache, fault>>

\* cacheKey = `messages:${message.conversationId}`
CacheKeyOf(t) == MsgById(t.msg).conversationId

\* await redisClient.lPush(cacheKey, JSON.stringify(message)) settles
LPushSettles(i, fail) ==
    /\ Alive
    /\ i \in 1..Len(tasks)
    /\ tasks[i].pc = "lPush"
    /\ LET t == tasks[i] IN
       IF fail
       THEN /\ tasks' = [tasks EXCEPT ![i] = RedisCatch(t)]
            /\ UNCHANGED cache
       ELSE /\ tasks' = [tasks EXCEPT ![i].pc = "lTrim"]
            /\ cache' = [cache EXCEPT ![CacheKeyOf(t)] = <<t.msg>> \o @]
    /\ UNCHANGED <<redisClient, trial, transient, autoReplies, proc, socks, nextSock, onlineUsers, reads, store,
                   now, fault>>

\* LTRIM key start stop
lTrim(list, start, stop) == SubSeq(list, start + 1, Min(Len(list), stop + 1))

\* await redisClient.lTrim(cacheKey, 0, 49) settles
LTrimSettles(i, fail) ==
    /\ Alive
    /\ i \in 1..Len(tasks)
    /\ tasks[i].pc = "lTrim"
    /\ LET t == tasks[i] IN
       IF fail
       THEN /\ tasks' = [tasks EXCEPT ![i] = RedisCatch(t)]
            /\ UNCHANGED cache
       ELSE /\ tasks' = [tasks EXCEPT ![i].pc = "expire"]
            /\ cache' = [cache EXCEPT ![CacheKeyOf(t)] = lTrim(@, 0, CacheKeep - 1)]
    /\ UNCHANGED <<redisClient, trial, transient, autoReplies, proc, socks, nextSock, onlineUsers, reads, store,
                   now, fault>>

\* await redisClient.expire(cacheKey, 3600) settles: the handler is over
\* either way; the time to live itself is not kept (see CacheExpires).
ExpireSettles(i, fail) ==
    /\ Alive
    /\ i \in 1..Len(tasks)
    /\ tasks[i].pc = "expire"
    /\ tasks' = [tasks EXCEPT ![i] = RedisCatch(tasks[i])]
    /\ UNCHANGED <<redisClient, trial, transient, autoReplies, proc, socks, nextSock, onlineUsers, reads, store,
                   now, cache, fault>>

\* Redis drops a key: its time to live ran out, or it was evicted.  A list
\* may disappear at any moment, whether or not expire succeeded.
CacheExpires(c) ==
    /\ Alive
    /\ cache[c] # <<>>
    /\ cache' = [cache EXCEPT ![c] = <<>>]
    /\ UNCHANGED <<redisClient, trial, transient, autoReplies, proc, socks, nextSock, onlineUsers, tasks, reads,
                   store, now, fault>>

\* ------------------------------------------------------ typing handlers
\* Payloads of typing:start / typing:stop
TypingPayloads ==
    {[defined |-> FALSE, receiverId |-> NoId]}
    \cup {[defined |-> TRUE, receiverId |-> r] : r \in Users \cup {NoId}}

\* The sockets that receive user:typing / user:stopped_typing
TypingTo(s, data) ==
    LET receiverSocketId == Lookup(data.receiverId) IN
    IF receiverSocketId # NoSock THEN InRoom(socks[s].srv, receiverSocketId) ELSE {}

\* What a typing listener does with a payload: the lookup, and the emit to
\* the room of the socket id it found
TypingHandled(on, s, data) ==
    [on |-> on, from |-> s, userId |-> SenderOf(s, data),
     receiverId |-> data.receiverId, conversationId |-> <<>>,
     reg |-> Lookup(data.receiverId), to |-> TypingTo(s, data), marked |-> {}]

\* socket.on('typing:start', ({ receiverId }) => ...): the parameter pattern
\* destructures the payload outside any try block, so an event without a
\* payload throws in the listener and the exception reaches
\* process.on('uncaughtException').  Nothing else changes state.
TypingStart(s, data) ==
    /\ Alive
    /\ socks[s].st = "open"
    /\ socks[s].handlers
    /\ IF ~data.defined
       THEN /\ UncaughtException("typing:start", socks)
            /\ UNCHANGED transient
       ELSE /\ transient' = TypingHandled("typing:start", s, data)
            /\ UNCHANGED <<proc, socks, onlineUsers, tasks, reads, fault, autoReplies>>
    /\ UNCHANGED <<redisClient, trial, nextSock, store, now, cache>>

\* socket.on('typing:stop', ({ receiverId }) => ...)
TypingStop(s, data) ==
    /\ Alive
    /\ socks[s].st = "open"
    /\ socks[s].handlers
    /\ IF ~data.defined
       THEN /\ UncaughtException("typing:stop", socks)
            /\ UNCHANGED transient
       ELSE /\ transient' = TypingHandled("typing:stop", s, data)
            /\ UNCHANGED <<proc, socks, onlineUsers, tasks, reads, fault, autoReplies>>
    /\ UNCHANGED <<redisClient, trial, nextSock, store, now, cache>>

\* --------------------------------------------------- messages:read handler
ReadPayloads ==
    {[defined |-> FALSE, conversationId |-> <<>>, senderId |-> NoId]}
    \cup {[defined |-> TRUE, conversationId |-> c, senderId |-> u] :
             c \in ConvIds, u \in Users}

\* socket.on('messages:read', async ({ conversationId, senderId }) => ...):
\* the parameter pattern is destructured before the try block is entered, so
\* an event without a payload rejects the promise the listener returns and
\* process.on('unhandledRejection') starts the shutdown.  Otherwise the
\* handler calls Message.markAsRead (readAt is new Date() at the call).
MessagesRead(s, data) ==
    /\ Alive
    /\ socks[s].st = "open"
    /\ socks[s].handlers
    /\ IF ~data.defined
       THEN /\ UnhandledRejection("messages:read")
            /\ UNCHANGED reads
       ELSE /\ Len(reads) < MaxReads
            /\ reads' = Append(reads, [sock |-> s, userId |-> SenderOf(s, data),
                                       srv |-> socks[s].srv,
                                       conversationId |-> data.conversationId,
                                       senderId |-> data.senderId, at |-> now])
            /\ UNCHANGED <<proc, fault>>
    /\ UNCHANGED <<redisClient, trial, transient, autoReplies, socks, nextSock, onlineUsers, tasks, store, now, cache>>

RemoveAt(seq, k) == SubSeq(seq, 1, k - 1) \o SubSeq(seq, k + 1, Len(seq))

\* The sockets that receive the messages:read notification
ReadReceiptTo(r) ==
    LET senderSocketId == Lookup(r.senderId) IN
    IF senderSocketId # NoSock THEN InRoom(r.srv, senderSocketId) ELSE {}

\* The documents the updateMany of markAsRead modifies
MarkedBy(docs, conversationId, userId) ==
    {docs[k].id : k \in {j \in 1..Len(docs) :
                            /\ docs[j].conversationId = conversationId
                            /\ docs[j].receiver = userId
                            /\ docs[j].isRead = FALSE}}

\* await Message.markAsRead(...) settles; on success the handler notifies
\* the socket registered for senderId, on failure the catch block only logs
\* (console.error): no event is emitted to anyone.
ReadSettles(k, fail) ==
    /\ Alive
    /\ k \in 1..Len(reads)
    /\ store' = IF fail THEN store
                ELSE markAsRead(store, reads[k].conversationId, reads[k].userId,
                                reads[k].at)
    /\ reads' = RemoveAt(reads, k)
    /\ socks' = IF fail THEN [socks EXCEPT ![reads[k].sock].readFailed = TRUE]
                ELSE socks
    /\ transient' =
           LET r == reads[k] IN
           [on |-> "messages:read", from |-> r.sock, userId |-> r.userId,
            receiverId |-> r.senderId, conversationId |-> r.conversationId,
            reg |-> IF fail THEN NoSock ELSE Lookup(r.senderId),
            to |-> IF fail THEN {} ELSE ReadReceiptTo(r),
            marked |-> IF fail THEN {}
                       ELSE MarkedBy(store, r.conversationId, r.userId)]
    /\ UNCHANGED <<redisClient, trial, autoReplies, proc, nextSock, onlineUsers, tasks, now,
                   cache, fault>>

\* socket.on('get:online_users'): replies to the requester, changes nothing
GetOnlineUsers(s) ==
    /\ Alive
    /\ socks[s].st = "open"
    /\ socks[s].handlers
    /\ UNCHANGED vars

\* ------------------------------------------------------- HTTP chat routes
\* messageValidation (express-validator): receiverId notEmpty and isMongoId,
\* content trimmed, notEmpty, 1..2000 characters
messageValidation(data) ==
    /\ data.defined
    /\ IsObjectId(data.receiverId)
    /\ LET c == Trim(data.content) IN StrLen(c) >= 1 /\ StrLen(c) <= MaxContent

\* A processAutoReply invocation, at its first await.  failed tells that one
\* of its store operations rejected; reply is the message it created, regSock
\* the socket registered for the original sender when the reply was created
\* and pushTo the sockets the reply was emitted to.
NewAutoReply(id) ==
    [msg |-> id, pc |-> "findById", reply |-> NoMsg, failed |-> FALSE,
     regSock |-> NoSock, pushTo |-> {}]

\* POST /api/chat (chatController.sendMessage) for the authenticated user u:
\* Message.create, populate, then processAutoReply(message._id) is started
\* and not awaited.  A request that fails validation or whose store
\* operation rejects is answered with an error and changes nothing more.
\* The handler reads nothing between its awaits that another handler writes,
\* so it is taken in one step.  createdAt (timestamps: true) is stamped by
\* the application when the document is built, at some time at <= now; the
\* insert may reach the collection after documents that were stamped later.
HttpSendMessage(u, data, failCreate, failPopulate, at) ==
    /\ proc = "running"
    /\ Len(store) < MaxMsgs
    /\ at \in 1..now
    /\ IF ~messageValidation(data) \/ failCreate
          \/ ~CreateValid(data.receiverId, data.content)
       THEN UNCHANGED <<store, now, autoReplies>>
       ELSE /\ store' = Append(store,
                   NewMessage(Len(store) + 1, u, data.receiverId, data.content,
                              getConversationId(u, data.receiverId), at))
            /\ now' = now + 1
            /\ autoReplies' = IF failPopulate THEN autoReplies
                              ELSE Append(autoReplies, NewAutoReply(Len(store) + 1))
    /\ UNCHANGED <<redisClient, trial, transient, proc, socks, nextSock, onlineUsers, tasks, reads,
                   cache, fault>>

\* PUT /api/chat/:userId/read (chatController.markAsRead)
HttpMarkAsRead(u, userId, fail) ==
    /\ proc = "running"
    /\ store' = IF fail THEN store
                ELSE markAsRead(store, getConversationId(u, userId), u, now)
    /\ UNCHANGED <<redisClient, trial, transient, autoReplies, proc, socks, nextSock, onlineUsers, tasks,
                   reads, now, cache, fault>>

\* A call of Message.deleteForUser(messageId, userId)
DeleteForUser(messageId, userId, fail) ==
    /\ proc = "running"
    /\ store' = IF fail THEN store ELSE deleteForUser(store, messageId, userId)
    /\ UNCHANGED <<redisClient, trial, transient, autoReplies, proc, socks, nextSock, onlineUsers, tasks,
                   reads, now, cache, fault>>

\* ------------------------------------------------------------ auto-reply
\* The accounts created by the seed scripts: their email ends in @example.com
SampleUsers == {u \in Users : u > 1}

\* isSampleUser: User.findById, then the email pattern; a rejection is caught
\* and answered with false
isSampleUser(userId, fail) == ~fail /\ userId \in SampleUsers

\* replyTemplates.  An emoji (two UTF-16 code units) is written as two
\* ASCII characters.
replyTemplates ==
    [greetings |->
        <<"Hey! How are you doing? :)",
          "Hi there! Great to hear from you!",
          "Hello! Hope you're having a good day!",
          "Hey! What's up?",
          "Hi! Nice to connect with you!">>,
     questions |->
        <<"That's a great question! Let me think about it...",
          "Interesting point! I'd say it depends on the context.",
          "Good question! In my experience, I've found that...",
          "That's something I've been thinking about too!",
          "Great question! From what I know...">>,
     workRelated |->
        <<"Yeah, I've been working on some interesting projects lately.",
          "Work has been pretty busy but exciting!",
          "I'm currently focused on expanding my skills in that area.",
          "That's exactly what I've been dealing with at work!",
          "I find that aspect of work really fascinating.">>,
     jobsCareer |->
        <<"I'm always looking for new opportunities to grow!",
          "Career development is definitely a priority for me.",
          "I think networking is so important for career growth.",
          "That sounds like an interesting opportunity!",
          "I'd love to learn more about that field.">>,
     technology |->
        <<"Technology is evolving so fast these days!",
          "I've been learning more about that tech stack recently.",
          "That's a really powerful tool, I've used it on several projects.",
          "The tech industry is so exciting right now!",
          "I'm really interested in how that technology works.">>,
     appreciation |->
        <<"Thanks so much! I really appreciate that! ^^",
          "Thank you! That means a lot!",
          "I appreciate you saying that!",
          "Thanks! You're too kind! :)",
          "Thank you! Happy to help!">>,
     general |->
        <<"That's really interesting! Tell me more.",
          "I totally understand what you mean.",
          "That makes a lot of sense!",
          "I hadn't thought about it that way before.",
          "That's a good point!",
          "I see what you're saying.",
          "Absolutely! I agree with that.",
          "That's fascinating! How did you get into that?",
          "I'd love to hear more about your experience with that.",
          "Thanks for sharing that perspective!">>,
     closing |->
        <<"It was great chatting with you! Let's stay in touch.",
          "Thanks for the conversation! Talk soon! o/",
          "Really enjoyed our chat! Catch up later?",
          "Let's continue this conversation soon!",
          "Great talking to you! Have a wonderful day!">>]

UpperCase == "ABCDEFGHIJKLMNOPQRSTUVWXYZ"
LowerCase == "abcdefghijklmnopqrstuvwxyz"

\* String.prototype.toLowerCase, one character
LowerChar(c) ==
    LET at == {i \in 1..Len(UpperCase) : SubSeq(UpperCase, i, i) = c}
    IN  IF at = {} THEN c ELSE LET i == CHOOSE i \in at : TRUE IN SubSeq(LowerCase, i, i)

\* String.prototype.toLowerCase
RECURSIVE toLowerCase(_)
toLowerCase(text) ==
    IF Len(text) = 0 THEN ""
    ELSE LowerChar(SubSeq(text, 1, 1)) \o toLowerCase(SubSeq(text, 2, Len(text)))

\* /(p)/.test(text): the pattern occurs somewhere in the text
Occurs(text, p) ==
    \E i \in 1..(Len(text) - Len(p) + 1) : SubSeq(text, i, i + Len(p) - 1) = p

\* /(a|b|...)/i.test(text): one of the alternatives occurs in the text
Test(text, alternatives) == \E p \in alternatives : Occurs(text, p)

\* The regular expressions of categorizeMessage, in the order they are tried
Patterns ==
    << [category |-> "greetings",
        alternatives |-> {"hi", "hello", "hey", "good morning", "good afternoon",
                          "good evening", "sup", "what's up"}],
       [category |-> "questions",
        alternatives |-> {"what", "why", "how", "when", "where", "who", "can you",
                          "could you", "would you", "?"}],
       [category |-> "workRelated",
        alternatives |-> {"work", "project", "team", "meeting", "deadline", "office",
                          "colleague"}],
       [category |-> "jobsCareer",
        alternatives |-> {"job", "career", "opportunity", "position", "hiring",
                          "interview", "resume", "skills"}],
       [category |-> "technology",
        alternatives |-> {"tech", "code", "programming", "software", "developer",
                          "app", "api", "database", "cloud", "ai", "ml"}],
       [category |-> "appreciation",
        alternatives |-> {"thank", "thanks", "appreciate", "grateful", "awesome",
                          "great", "amazing", "wonderful"}],
       [category |-> "closing",
        alternatives |-> {"bye", "goodbye", "talk later", "catch up", "see you",
                          "ttyl", "gotta go"}] >>

\* categorizeMessage: the category of the first expression that matches the
\* lower-cased content, general if none does
categorizeMessage(content) ==
    LET lowerContent == toLowerCase(content)
        hits == {i \in 1..Len(Patterns) : Test(lowerContent, Patterns[i].alternatives)}
    IN  IF hits = {} THEN "general"
        ELSE Patterns[CHOOSE i \in hits : \A j \in hits : i <= j].category

\* generateReply: templates[randomIndex] of the category's templates;
\* randomIndex is Math.floor(Math.random() * templates.length), counted
\* from 1 here
generateReply(messageContent, randomIndex) ==
    replyTemplates[categorizeMessage(messageContent)][randomIndex]

\* The values randomIndex can take for a message
RandomIndexes(messageContent) ==
    DOMAIN replyTemplates[categorizeMessage(messageContent)]

\* The content of a message whose text is a reply template: no blank at
\* either end
AsContent(text) == Str(0, Len(text), 0)

\* A call of generateReply(text)
Categorize(text) ==
    /\ \E randomIndex \in RandomIndexes(text) :
           trial' = [text |-> text, category |-> categorizeMessage(text),
                     reply |-> generateReply(text, randomIndex)]
    /\ UNCHANGED <<redisClient, proc, socks, nextSock, onlineUsers, tasks, reads,
                   store, now, cache, fault, autoReplies, transient>>

\* await Message.findById(messageId).populate(...) settles; a rejection is
\* caught and logged by processAutoReply
AutoReplyFinds(k, fail) ==
    /\ Alive
    /\ k \in 1..Len(autoReplies)
    /\ autoReplies[k].pc = "findById"
    /\ autoReplies' = [autoReplies EXCEPT ![k] =
           IF fail THEN [@ EXCEPT !.pc = "done", !.failed = TRUE]
           ELSE [@ EXCEPT !.pc = "isSampleUser"]]
    /\ UNCHANGED <<redisClient, trial, transient, proc, socks, nextSock, onlineUsers, tasks, reads,
                   store, now, cache, fault>>

\* await isSampleUser(message.receiver._id) settles: the invocation returns
\* unless the receiver is a sample user, else it arms the timer
\* (a delay of 2 to 5 seconds)
AutoReplyChecks(k, fail) ==
    /\ Alive
    /\ k \in 1..Len(autoReplies)
    /\ autoReplies[k].pc = "isSampleUser"
    /\ autoReplies' = [autoReplies EXCEPT ![k] =
           IF isSampleUser(MsgById(@.msg).receiver, fail)
           THEN [@ EXCEPT !.pc = "timer"]
           ELSE [@ EXCEPT !.pc = "done", !.failed = fail]]
    /\ UNCHANGED <<redisClient, trial, transient, proc, socks, nextSock, onlineUsers, tasks, reads,
                   store, now, cache, fault>>

\* (variant: the reply is sent the way a user's message is, and
\* processAutoReply is started for it)
AutoReplyTimerCascades(k, fail, replyContent) ==
    /\ Alive
    /\ k \in 1..Len(autoReplies)
    /\ autoReplies[k].pc = "timer"
    /\ LET r == autoReplies[k]
           message == MsgById(r.msg)
       IN  IF fail
           THEN /\ autoReplies' = [autoReplies EXCEPT ![k] =
                       [r EXCEPT !.pc = "done", !.failed = TRUE]]
                /\ UNCHANGED <<store, now>>
           ELSE /\ store' = Append(store,
                       NewMessage(Len(store) + 1, message.receiver, message.sender,
                                  AsContent(replyContent),
                                  getConversationId(message.receiver, message.sender),
                                  now))
                /\ now' = now + 1
                /\ autoReplies' = Append([autoReplies EXCEPT ![k] =
                                             [r EXCEPT !.pc = "done",
                                                       !.reply = Len(store) + 1]],
                                         NewAutoReply(Len(store) + 1))
    /\ UNCHANGED <<redisClient, trial, transient, proc, socks, nextSock, onlineUsers,
                   tasks, reads, cache, fault>>

\* The timer fires: Message.create of the reply, from the receiver to the
\* sender of the original message, then console.log.  Nothing is emitted to
\* any socket; a rejection is caught and logged.  replyContent is what
\* generateReply(message.content) returned.
AutoReplyTimer(k, fail, replyContent) ==
    /\ Alive
    /\ k \in 1..Len(autoReplies)
    /\ autoReplies[k].pc = "timer"
    /\ LET r == autoReplies[k]
           message == MsgById(r.msg)
       IN  IF fail
           THEN /\ autoReplies' = [autoReplies EXCEPT ![k] =
                       [r EXCEPT !.pc = "done", !.failed = TRUE]]
                /\ UNCHANGED <<store, now>>
           ELSE /\ store' = Append(store,
                       NewMessage(Len(store) + 1, message.receiver, message.sender,
                                  AsContent(replyContent),
                                  getConversationId(message.receiver, message.sender),
                                  now))
                /\ now' = now + 1
                /\ autoReplies' = [autoReplies EXCEPT ![k] =
                       [r EXCEPT !.pc = "done", !.reply = Len(store) + 1,
                                 !.regSock = Lookup(message.sender),
                                 !.pushTo = {}]]
    /\ UNCHANGED <<redisClient, trial, transient, proc, socks, nextSock, onlineUsers, tasks, reads,
                   cache, fault>>

\* welcomeMessages of initializeConversation
welcomeMessages ==
    <<"Hey! Thanks for connecting! How have you been?",
      "Hi! Great to connect with you on ConnectHub!",
      "Hello! I saw your profile and thought we might have some common interests!",
      "Hey there! Thanks for the connection request!",
      "Hi! Looking forward to networking with you!">>

\* initializeConversation(userId, sampleUserId): Message.create of a welcome
\* message from the sample user; a rejection is caught and logged.
InitializeConversation(userId, sampleUserId, randomIndex, fail) ==
    /\ proc = "running"
    /\ Len(store) < MaxMsgs
    /\ randomIndex \in DOMAIN welcomeMessages
    /\ IF fail
       THEN UNCHANGED <<store, now>>
       ELSE /\ store' = Append(store,
                   NewMessage(Len(store) + 1, sampleUserId, userId,
                              AsContent(welcomeMessages[randomIndex]),
                              getConversationId(userId, sampleUserId), now))
            /\ now' = now + 1
    /\ UNCHANGED <<redisClient, trial, transient, proc, socks, nextSock, onlineUsers,
                   tasks, reads, cache, fault, autoReplies>>

\* Message texts: the documented triggers on their own, the documented test
\* scenarios, and texts without any trigger
Texts ==
    {"hi", "hello", "hey", "good morning",
     "what", "why", "how", "when", "?",
     "work", "project", "team", "meeting",
     "job", "career", "opportunity", "hiring",
     "tech", "code", "programming", "AI",
     "thanks", "appreciate", "awesome",
     "bye", "goodbye", "talk later",
     "Hi", "Hi Arpit, how are you?",
     "What do you think about the latest tech trends?",
     "I'm looking for job opportunities",
     "Have you worked with React before?",
     "ok", "Sounds good"}

\* ------------------------------------------------------- specification
Next ==
    \/ \E token \in Tokens, srv \in Servers : Connect(token, srv)
    \/ \E s \in Socks : Disconnect(s)
    \/ ProcessExits
    \/ \E s \in Socks, data \in SendPayloads : SendMessage(s, data)
    \/ \E i \in 1..MaxSends, fail \in BOOLEAN, tick \in 0..1 : CreateSettles(i, fail, tick)
    \/ \E i \in 1..MaxSends, fail \in BOOLEAN : PopulateSettles(i, fail)
    \/ \E i \in 1..MaxSends, fail \in BOOLEAN : LPushSettles(i, fail)
    \/ \E i \in 1..MaxSends, fail \in BOOLEAN : LTrimSettles(i, fail)
    \/ \E i \in 1..MaxSends, fail \in BOOLEAN : ExpireSettles(i, fail)
    \/ \E c \in ConvIds : CacheExpires(c)
    \/ \E s \in Socks, data \in TypingPayloads : TypingStart(s, data)
    \/ \E s \in Socks, data \in TypingPayloads : TypingStop(s, data)
    \/ \E s \in Socks, data \in ReadPayloads : MessagesRead(s, data)
    \/ \E k \in 1..MaxReads, fail \in BOOLEAN : ReadSettles(k, fail)
    \/ \E s \in Socks : GetOnlineUsers(s)
    \/ \E s \in Socks : CloseAgain(s)
    \/ \E u \in Users, data \in SendPayloads, failCreate \in BOOLEAN,
          failPopulate \in BOOLEAN, at \in 1..MaxMsgs :
           HttpSendMessage(u, data, failCreate, failPopulate, at)
    \/ \E u \in Users, userId \in Users, fail \in BOOLEAN : HttpMarkAsRead(u, userId, fail)
    \/ \E messageId \in 1..MaxMsgs, userId \in Users, fail \in BOOLEAN :
           DeleteForUser(messageId, userId, fail)
    \/ \E k \in 1..MaxMsgs, fail \in BOOLEAN : AutoReplyFinds(k, fail)
    \/ \E k \in 1..MaxMsgs, fail \in BOOLEAN : AutoReplyChecks(k, fail)
    \/ \E k \in 1..MaxMsgs, fail \in BOOLEAN, text \in Texts :
           \E randomIndex \in RandomIndexes(text) :
               AutoReplyTimer(k, fail, generateReply(text, randomIndex))
    \/ \E text \in Texts : Categorize(text)
    \/ \E userId \in Users, sampleUserId \in Users,
          randomIndex \in DOMAIN welcomeMessages, fail \in BOOLEAN :
           InitializeConversation(userId, sampleUserId, randomIndex, fail)

Spec == Init /\ [][Next]_vars


\* The send path: connections and send:message handlers.  The clock moves
\* on between two inserts.
NextSend ==
    \/ \E token \in Tokens, srv \in Servers : Connect(token, srv)
    \/ \E s \in Socks : Disconnect(s)
    \/ \E s \in Socks, data \in SendPayloads : SendMessage(s, data)
    \/ \E i \in 1..MaxSends, fail \in BOOLEAN : CreateSettles(i, fail, 1)
    \/ \E i \in 1..MaxSends, fail \in BOOLEAN : PopulateSettles(i, fail)
    \/ \E i \in 1..MaxSends, fail \in BOOLEAN : LPushSettles(i, fail)
    \/ \E i \in 1..MaxSends, fail \in BOOLEAN : LTrimSettles(i, fail)
    \/ \E i \in 1..MaxSends, fail \in BOOLEAN : ExpireSettles(i, fail)
    \/ \E c \in ConvIds : CacheExpires(c)

SpecSend == Init /\ [][NextSend]_vars

\* Typing events emitted without a payload
BareTyping == {d \in TypingPayloads : ~d.defined}

\* The gateway without the send path: connections, typing events without a
\* payload, messages:read events and presence queries
NextPresence ==
    \/ \E token \in Tokens, srv \in Servers : Connect(token, srv)
    \/ \E s \in Socks : Disconnect(s)
    \/ \E s \in Socks : CloseAgain(s)
    \/ ProcessExits
    \/ \E s \in Socks, data \in BareTyping : TypingStart(s, data)
    \/ \E s \in Socks, data \in BareTyping : TypingStop(s, data)
    \/ \E s \in Socks, data \in ReadPayloads : MessagesRead(s, data)
    \/ \E k \in 1..MaxReads, fail \in BOOLEAN : ReadSettles(k, fail)
    \/ \E s \in Socks : GetOnlineUsers(s)

SpecPresence == Init /\ [][NextPresence]_vars


\* Long conversations: the store already holds a conversation of 49 or 50
\* messages between identities 1 and 2.  Clients present valid tokens to the
\* HTTP server; one well-formed send:message event arrives; a reader marks
\* the conversation it has with the sender it names, and the store answers
\* that call.
InitPaged == \E prior \in {DefaultLimit - 1, DefaultLimit} : InitWith(prior)

WellFormedSends ==
    {d \in SendPayloads : d.defined /\ d.receiverId \in Users /\ d.content = Hi}

WellFormedReads(reader) ==
    {d \in ReadPayloads :
        d.defined /\ d.conversationId = getConversationId(reader, d.senderId)}

NextPaged ==
    \/ \E u \in Users : Connect([kind |-> "valid", userId |-> u], "http")
    \/ \E s \in Socks : Disconnect(s)
    \/ \E s \in Socks, data \in WellFormedSends : tasks = <<>> /\ SendMessage(s, data)
    \/ \E i \in 1..MaxSends, fail \in BOOLEAN : CreateSettles(i, fail, 1)
    \/ \E i \in 1..MaxSends, fail \in BOOLEAN : PopulateSettles(i, fail)
    \/ \E i \in 1..MaxSends, fail \in BOOLEAN : LPushSettles(i, fail)
    \/ \E i \in 1..MaxSends, fail \in BOOLEAN : LTrimSettles(i, fail)
    \/ \E i \in 1..MaxSends, fail \in BOOLEAN : ExpireSettles(i, fail)
    \/ \E s \in Socks : \E data \in WellFormedReads(socks[s].userId) : MessagesRead(s, data)
    \/ \E k \in 1..MaxReads : ReadSettles(k, FALSE)

SpecPaged == InitPaged /\ [][NextPaged]_vars

\* The conversation store behind the HTTP chat routes: messages are created
\* (two may carry the same timestamp, and the collection's natural order
\* need not be the order of the timestamps), conversations are marked read,
\* messages are soft-deleted.
NextStore ==
    \/ \E u \in Users, data \in SendPayloads, fail \in BOOLEAN, at \in 1..MaxMsgs :
           HttpSendMessage(u, data, fail, FALSE, at)
    \/ \E u \in Users, userId \in Users, fail \in BOOLEAN : HttpMarkAsRead(u, userId, fail)
    \/ \E messageId \in 1..MaxMsgs, userId \in Users, fail \in BOOLEAN :
           DeleteForUser(messageId, userId, fail)

InitStore == Init /\ redisClient = "client"

SpecStore == InitStore /\ [][NextStore]_vars

\* Auto-replies: clients with valid tokens connect to the HTTP server; one
\* well-formed message ("Hi") arrives through send:message and one through
\* POST /api/chat; the reply processes run.
NextReply ==
    \/ \E u \in Users : Connect([kind |-> "valid", userId |-> u], "http")
    \/ \E s \in Socks : Disconnect(s)
    \/ \E s \in Socks, data \in WellFormedSends : tasks = <<>> /\ SendMessage(s, data)
    \/ \E i \in 1..MaxSends, fail \in BOOLEAN : CreateSettles(i, fail, 1)
    \/ \E i \in 1..MaxSends, fail \in BOOLEAN : PopulateSettles(i, fail)
    \/ \E i \in 1..MaxSends, fail \in BOOLEAN : LPushSettles(i, fail)
    \/ \E i \in 1..MaxSends, fail \in BOOLEAN : LTrimSettles(i, fail)
    \/ \E i \in 1..MaxSends, fail \in BOOLEAN : ExpireSettles(i, fail)
    \/ \E u \in Users, data \in WellFormedSends, failCreate \in BOOLEAN,
          failPopulate \in BOOLEAN :
           autoReplies = <<>> /\ HttpSendMessage(u, data, failCreate, failPopulate, now)
    \/ \E k \in 1..MaxMsgs, fail \in BOOLEAN : AutoReplyFinds(k, fail)
    \/ \E k \in 1..MaxMsgs, fail \in BOOLEAN : AutoReplyChecks(k, fail)
    \/ \E k \in 1..MaxMsgs, fail \in BOOLEAN, randomIndex \in RandomIndexes("Hi") :
           AutoReplyTimer(k, fail, generateReply("Hi", randomIndex))

SpecReply == InitStore /\ [][NextReply]_vars

\* Typing indicators: connections to either server and typing events
NextTyping ==
    \/ \E token \in Tokens, srv \in Servers : Connect(token, srv)
    \/ \E s \in Socks : Disconnect(s)
    \/ \E s \in Socks, data \in TypingPayloads : TypingStart(s, data)
    \/ \E s \in Socks, data \in TypingPayloads : TypingStop(s, data)

SpecTyping == Init /\ [][NextTyping]_vars

\* Read receipts: clients with valid tokens connect to the HTTP server,
\* messages are posted through the HTTP endpoint, and messages:read events
\* with any conversation id and any sender id arrive.
DefinedReads == {d \in ReadPayloads : d.defined}

NextRead ==
    \/ \E u \in Users : Connect([kind |-> "valid", userId |-> u], "http")
    \/ \E u \in Users, data \in WellFormedSends :
           Len(store) < MaxThread /\ HttpSendMessage(u, data, FALSE, TRUE, now)
    \/ \E s \in Socks, data \in DefinedReads : MessagesRead(s, data)
    \/ \E k \in 1..MaxReads, fail \in BOOLEAN : ReadSettles(k, fail)

SpecRead == InitStore /\ [][NextRead]_vars

\* Payloads that carry a userId field naming an identity of the client's
\* choice, next to the fields the listeners read
ForgedSends ==
    {[defined |-> TRUE, receiverId |-> r, content |-> Hi, userId |-> x] :
        r \in Users, x \in Users}

ForgedTyping ==
    {[defined |-> TRUE, receiverId |-> r, userId |-> x] : r \in Users, x \in Users}

ForgedReads ==
    {[defined |-> TRUE, conversationId |-> getConversationId(u, x), senderId |-> u,
      userId |-> x] : u \in Users, x \in Users}

\* Identity of the sender: any token is presented at the handshake of the
\* HTTP server, and the events carry a userId field.
NextAuth ==
    \/ \E token \in Tokens : Connect(token, "http")
    \/ \E s \in Socks, data \in ForgedSends : tasks = <<>> /\ SendMessage(s, data)
    \/ \E i \in 1..MaxSends, fail \in BOOLEAN : CreateSettles(i, fail, 1)
    \/ \E i \in 1..MaxSends, fail \in BOOLEAN : PopulateSettles(i, fail)
    \/ \E s \in Socks, data \in ForgedTyping : TypingStart(s, data)
    \/ \E s \in Socks, data \in ForgedTyping : TypingStop(s, data)
    \/ \E s \in Socks, data \in ForgedReads : MessagesRead(s, data)
    \/ \E k \in 1..MaxReads : ReadSettles(k, FALSE)

SpecAuth == InitStore /\ [][NextAuth]_vars

\* Payloads whose receiverId is written in lower or in upper case
RespelledSends ==
    {[defined |-> TRUE, receiverId |-> r, content |-> Hi] :
        r \in Users \cup {UpperHex(u) : u \in Users}}

\* Every writer of the messages collection: the send:message handler, the
\* HTTP endpoint, the reply timer and initializeConversation.
NextKey ==
    \/ \E u \in Users : Connect([kind |-> "valid", userId |-> u], "http")
    \/ \E s \in Socks, data \in RespelledSends : tasks = <<>> /\ SendMessage(s, data)
    \/ \E i \in 1..MaxSends, fail \in BOOLEAN : CreateSettles(i, fail, 1)
    \/ \E i \in 1..MaxSends, fail \in BOOLEAN : PopulateSettles(i, fail)
    \/ \E u \in Users, data \in RespelledSends, failCreate \in BOOLEAN :
           autoReplies = <<>> /\ HttpSendMessage(u, data, failCreate, FALSE, now)
    \/ \E k \in 1..MaxMsgs : AutoReplyFinds(k, FALSE)
    \/ \E k \in 1..MaxMsgs : AutoReplyChecks(k, FALSE)
    \/ \E k \in 1..MaxMsgs, fail \in BOOLEAN :
           AutoReplyTimer(k, fail, generateReply("Hi", 1))
    \/ \E userId \in Users, sampleUserId \in Users, fail \in BOOLEAN :
           InitializeConversation(userId, sampleUserId, 1, fail)

SpecKey == InitStore /\ [][NextKey]_vars

\* Posts and their replies: messages ("Hi") are posted through the HTTP
\* endpoint by and to any identity, and the reply processes run.
NextCascade ==
    \/ \E u \in Users, data \in WellFormedSends, failCreate \in BOOLEAN,
          failPopulate \in BOOLEAN :
           HttpSendMessage(u, data, failCreate, failPopulate, now)
    \/ \E k \in 1..Len(autoReplies), fail \in BOOLEAN : AutoReplyFinds(k, fail)
    \/ \E k \in 1..Len(autoReplies), fail \in BOOLEAN : AutoReplyChecks(k, fail)
    \/ \E k \in 1..Len(autoReplies), fail \in BOOLEAN,
          randomIndex \in RandomIndexes("Hi") :
           AutoReplyTimer(k, fail, generateReply("Hi", randomIndex))

SpecCascade == InitStore /\ [][NextCascade]_vars

\* The reply generator on its own: generateReply is called on a text
NextCategorize == \E text \in Texts : Categorize(text)

SpecCategorize == Init /\ [][NextCategorize]_vars

\* ================================================================ claims
\* The send handler of task t has passed its delivery stretch (lookup,
\* receive:message, message:sent)
Acked(t) == t.pc \in {"lPush", "lTrim", "expire", "done"} /\ t.nSent > 0

\* The connections an identity was admitted with, oldest first by socket id
SocketsOf(u) == {x \in Socks : socks[x].st \in {"open", "closed"} /\ socks[x].userId = u}

\* C1: when an identity has connected again and the older socket's disconnect
\* handler has run while the newer socket is still open, the presence map
\* still maps the identity to the newer socket and the identity is online.
C1_StaleDisconnectKeepsNewer ==
    \A u \in Users :
        \A s1 \in SocketsOf(u), s2 \in SocketsOf(u) :
            (/\ s1 < s2
             /\ socks[s1].st = "closed"
             /\ socks[s2].st = "open"
             /\ \A x \in SocketsOf(u) : x <= s2)
            => (Lookup(u) = s2 /\ u \in OnlineKeys)

\* C2: every send:message event handled on a connection gets at most one of
\* message:sent / message:error, never both, and exactly one once the handler
\* is past its awaited store operations.
C2_SendVisibility ==
    \A i \in 1..Len(tasks) :
        LET t == tasks[i] IN
        /\ t.nSent + t.nErr <= 1
        /\ t.pc \in {"lPush", "lTrim", "expire", "done"} => t.nSent + t.nErr = 1
        /\ t.pc \in {"create", "populate"} => t.nSent + t.nErr = 0

\* C2 witness: a finished handler that acknowledged after its cache block
\* ran, next to a finished handler that reported a store failure.
C2_Witness ==
    \E i, j \in 1..Len(tasks) :
        /\ tasks[i].pc = "done" /\ tasks[i].nSent = 1 /\ cache[CacheKeyOf(tasks[i])] = <<>>
        /\ tasks[j].pc = "done" /\ tasks[j].nErr = 1 /\ tasks[j].msg # NoMsg

\* The payloads C3 speaks of: no payload, receiverId missing, or content
\* empty once trimmed
EmptyOrUnaddressed(data) ==
    \/ ~data.defined
    \/ data.receiverId = NoId
    \/ data.content.core = 0

\* A step in which a handler of such a payload starts or moves on
RejectionStep ==
    \E i \in 1..Len(tasks') :
        /\ EmptyOrUnaddressed(tasks'[i].data)
        /\ i > Len(tasks) \/ tasks'[i] # tasks[i]

\* C3: a send:message whose content is empty (also after trimming) or whose
\* receiverId is missing ends in message:error, creates no message, delivers
\* nothing, pushes nothing to the cache, and its handling leaves the
\* connection, the presence map, the store and the cache as they were.
C3_ValidationRejection ==
    /\ [](\A i \in 1..Len(tasks) :
            LET t == tasks[i] IN
            EmptyOrUnaddressed(t.data) =>
                /\ t.msg = NoMsg /\ t.rcv = {} /\ t.nSent = 0
                /\ t.pc = "done" => t.nErr = 1)
    /\ [](\A k \in 1..Len(store) : store[k].content.core > 0)
    /\ [][RejectionStep => UNCHANGED <<socks, onlineUsers, store, cache, proc>>]_vars

\* C3 witness: a blank message was refused by the store's validation and the
\* sender's socket is still open and registered.
C3_Witness ==
    \E i \in 1..Len(tasks) :
        /\ tasks[i].data.defined /\ tasks[i].data.content = Blank
        /\ tasks[i].pc = "done" /\ tasks[i].nErr = 1
        /\ socks[tasks[i].sock].st = "open"
        /\ Lookup(tasks[i].userId) = tasks[i].sock

\* C4: a connection attempt without a token, or with a token that
\* verifyAccessToken rejects, is refused before the connection listener: it
\* is not in the presence map, joined no room, announced nothing, wrote
\* nothing to Redis and none of its events is handled; every identity in the
\* presence map is the one named by the accepted token of its socket.
C4_AuthGate ==
    /\ \A s \in Socks :
          (socks[s].st # "fresh" /\ socks[s].token.kind # "valid") =>
              /\ socks[s].st = "refused"
              /\ ~socks[s].handlers /\ ~socks[s].joined
              /\ ~socks[s].announced /\ ~socks[s].sAdd
              /\ \A u \in Users : Lookup(u) # s
              /\ \A i \in 1..Len(tasks) : tasks[i].sock # s
              /\ \A k \in 1..Len(reads) : reads[k].sock # s
    /\ \A u \in OnlineKeys :
          socks[Lookup(u)].token = [kind |-> "valid", userId |-> u]

\* C4 witness: a forged token naming user 1 was refused while another
\* socket is admitted and has had an event handled.
C4_Witness ==
    \E s \in Socks :
        /\ socks[s].st = "refused" /\ socks[s].token.kind = "invalid"
        /\ \E i \in 1..Len(tasks) : socks[tasks[i].sock].st = "open"

\* C5: when a valid send from A to B is persisted and acknowledged while B
\* has an open authenticated connection (on either server), a socket of B
\* receives receive:message and A is sent message:sent for the same message.
C5_OnlineDelivery ==
    \A i \in 1..Len(tasks) :
        LET t == tasks[i] IN
        (Acked(t) /\ t.peerOpen) =>
            /\ t.rcv # {}
            /\ \A x \in t.rcv : socks[x].userId = t.data.receiverId
            /\ t.nSent = 1

\* The send of task t was persisted and populated, and the lookup found no
\* socket registered for the receiver
SentOffline(t) ==
    /\ t.msg # NoMsg
    /\ t.pc \in {"lPush", "lTrim", "expire", "done"}
    /\ t.nErr = 0
    /\ t.rcvSock = NoSock
    /\ t.data.receiverId \notin MsgById(t.msg).deletedBy

\* The page holds the message; it is unread unless markAsRead stamped it
InPage(id, page) ==
    \E k \in 1..Len(page) :
        page[k].id = id /\ page[k].isRead = (page[k].readAt # NoDate)

\* Rank of a message by creation time (insertion order on a tie) among the
\* messages of its conversation that the reader has not soft-deleted
Rank(m, reader) ==
    1 + Cardinality({k \in 1..Len(store) :
            /\ store[k].conversationId = m.conversationId
            /\ reader \notin store[k].deletedBy
            /\ \/ store[k].createdAt < m.createdAt
               \/ store[k].createdAt = m.createdAt /\ store[k].id < m.id})

C7_HandlerExceptionsContained ==
    fault \notin {"send:message", "typing:start", "typing:stop", "messages:read",
                  "get:online_users"}

\* C8: on one connection a send:message handler starts only after every
\* earlier send:message handler of that connection has run to completion.
C8_SendsDoNotInterleave ==
    \A i, j \in 1..Len(tasks) :
        (i < j /\ tasks[i].sock = tasks[j].sock) => tasks[i].pc = "done"

\* C9: with the cache failing, unavailable or disabled the gateway keeps
\* admitting connections with their handlers, and a send that was persisted
\* and acknowledged is never also reported as an error.
C9_CacheFailureIsolation ==
    /\ redisClient = "null" => (Alive /\ fault = "none")
    /\ \A s \in Socks : socks[s].st = "open" => socks[s].handlers
    /\ \A i \in 1..Len(tasks) :
          (tasks[i].nSent > 0) => (tasks[i].nErr = 0 /\ tasks[i].msg # NoMsg)

\* C10: once the send handlers have finished, every cached list holds at most
\* 50 entries, newest first by creation timestamp.
C10_CacheBoundedNewestFirst ==
    (\A i \in 1..Len(tasks) : tasks[i].pc = "done") =>
        \A c \in ConvIds :
            /\ Len(cache[c]) <= CacheKeep
            /\ \A k \in 1..(Len(cache[c]) - 1) :
                  MsgById(cache[c][k]).createdAt >= MsgById(cache[c][k + 1]).createdAt

\* Messages of a conversation addressed to reader and not yet read
UnreadIn(docs, conversationId, reader) ==
    Cardinality({k \in 1..Len(docs) :
        /\ docs[k].conversationId = conversationId
        /\ docs[k].receiver = reader
        /\ ~docs[k].isRead})

\* C11: marking a conversation read for a reader a second time, later, leaves
\* the store exactly as the first call left it (flags and readAt stamps), and
\* after the first call no message of the conversation addressed to the
\* reader is unread.
C11_ReadIdempotence ==
    \A c \in ConvIds, reader \in Users :
        LET once  == markAsRead(store, c, reader, now)
            twice == markAsRead(once, c, reader, now + 1)
        IN  /\ twice = once
            /\ UnreadIn(once, c, reader) = 0
            /\ \A k \in 1..Len(once) :
                  (once[k].conversationId = c /\ once[k].receiver = reader)
                      => (once[k].isRead /\ once[k].readAt # NoDate)
            /\ \A k \in 1..Len(once) :
                  (store[k].conversationId # c \/ store[k].receiver # reader
                   \/ store[k].isRead) => once[k] = store[k]

\* C11 witness: the same reader's conversation was marked read at two
\* different times, and the message read first kept its earlier stamp.
C11_Witness ==
    \E k, j \in 1..Len(store) :
        /\ store[k].conversationId = store[j].conversationId
        /\ store[k].receiver = store[j].receiver
        /\ store[k].isRead /\ store[j].isRead
        /\ store[k].readAt # NoDate /\ store[k].readAt < store[j].readAt

\* C12: the conversation id of (A, B) is that of (B, A): the two identities in
\* lexical order joined by "_" (kept as the ordered pair); every message
\* stored for a receiver id in canonical spelling carries the id its
\* receiver computes for the sender.
C12_ConversationIdSymmetry ==
    /\ \A a \in Users, b \in Users :
          /\ getConversationId(a, b) = getConversationId(b, a)
          /\ getConversationId(a, b) = <<Min(a, b), IF a >= b THEN a ELSE b>>
    /\ \A k \in 1..Len(store) :
          store[k].conversationId = getConversationId(store[k].receiver, store[k].sender)

\* C12 witness: two messages sent in opposite directions between two
\* different identities are stored under one conversation id.
C12_Witness ==
    \E k, j \in 1..Len(store) :
        /\ store[k].sender # store[k].receiver
        /\ store[k].sender = store[j].receiver
        /\ store[k].receiver = store[j].sender
        /\ store[k].conversationId = store[j].conversationId

\* A socket whose token was accepted
Admitted(s) == socks[s].st \in {"open", "closed"} /\ socks[s].token.kind = "valid"

\* The connections other than s that are open and served
ActiveBut(s) == {x \in Socks \ {s} : socks[x].st = "open" /\ socks[x].handlers}

\* C13: once an admitted connection has closed and its identity has no open
\* connection, the identity has no presence entry, is not among the online
\* identities and user:offline was broadcast for it; the broadcast of a
\* disconnect reaches every connection that remains active.
C13_SoleDisconnectGoesOffline ==
    /\ [](\A s \in Socks :
            (/\ Admitted(s)
             /\ socks[s].st = "closed"
             /\ ~HasOpenSocket(socks[s].userId))
            => /\ Lookup(socks[s].userId) = NoSock
               /\ socks[s].userId \notin OnlineKeys
               /\ socks[s].nOffline >= 1)
    /\ [][\A s \in Socks :
            (socks[s].st = "open" /\ socks'[s].st = "closed" /\ socks'[s].nOffline >= 1)
            => socks'[s].offlineTo = ActiveBut(s)]_vars

CreateFailed(t) == t.pc = "done" /\ t.msg = NoMsg /\ ~PayloadRejected(t.data)

\* C17: when Message.create rejects, the sender is emitted an error event
\* and nobody receives the message; when Message.markAsRead rejects, the
\* reader is emitted an error event and the peer is not notified.
C17_PersistenceFailureReported ==
    /\ \A i \in 1..Len(tasks) :
          CreateFailed(tasks[i]) =>
              (tasks[i].nErr = 1 /\ tasks[i].nSent = 0 /\ tasks[i].rcv = {})
    /\ \A s \in Socks :
          socks[s].readFailed =>
              (socks[s].readErrors >= 1 /\ socks[s].readFailNotices = {})

\* C18: a message keeps its place in the collection (soft deletion never
\* removes it), deletedBy holds identities without repetition, and a message
\* between two identities that both of them have soft-deleted is flagged
\* isDeleted.
C18_SoftDeleteFlagsBoth ==
    \A k \in 1..Len(store) :
        /\ store[k].id = k
        /\ store[k].deletedBy \subseteq Users
        /\ (/\ store[k].sender # store[k].receiver
            /\ {store[k].sender, store[k].receiver} \subseteq store[k].deletedBy)
           => store[k].isDeleted

\* Page sizes requested: small ones and the default
Limits == (1..MaxLimit) \cup {DefaultLimit}

\* The messages of a conversation that a requester has not soft-deleted
VisibleTo(requester, other) ==
    {k \in 1..Len(store) :
        /\ store[k].conversationId = getConversationId(requester, other)
        /\ requester \notin store[k].deletedBy}

\* C19: a page holds stored messages of the conversation that the requester
\* has not soft-deleted, each once, in ascending creation time; it is as long
\* as the positions (page-1)*limit .. page*limit-1 of that sequence allow;
\* and its j-th message stands at position (page-1)*limit + j of the
\* sequence ordered by creation time.
C19_ConversationPage ==
    \A requester \in Users, other \in Users, page \in 1..MaxPage, limit \in Limits :
        LET r    == getConversation(store, requester, other, page, limit)
            V    == VisibleTo(requester, other)
            skip == (page - 1) * limit
            left == Cardinality(V) - skip
        IN  /\ Len(r) = (IF left <= 0 THEN 0 ELSE Min(limit, left))
            /\ \A j \in 1..Len(r) : r[j].id \in V /\ r[j] = store[r[j].id]
            /\ \A i \in 1..Len(r), j \in 1..Len(r) :
                  i < j => (r[i].id # r[j].id /\ r[i].createdAt <= r[j].createdAt)
            /\ \A j \in 1..Len(r) :
                  /\ Cardinality({k \in V : store[k].createdAt < r[j].createdAt})
                        <= skip + j - 1
                  /\ Cardinality({k \in V : store[k].createdAt <= r[j].createdAt})
                        >= skip + j

\* C19 witness: a message soft-deleted by the other participant only is
\* returned to the requester on the second page of size 1, and the default
\* page of the other participant is shorter than the requester's.
C19_Witness ==
    \E requester \in Users, other \in Users :
        LET p2 == getConversation(store, requester, other, 2, 1) IN
        /\ requester # other
        /\ Len(p2) = 1
        /\ p2[1].deletedBy = {other}
        /\ Len(getConversation(store, other, requester, 1, DefaultLimit))
             < Len(getConversation(store, requester, other, 1, DefaultLimit))

\* The messages getUserConversations groups under a conversation id for U
GroupOf(U, c) ==
    {k \in 1..Len(store) :
        /\ store[k].conversationId = c
        /\ (store[k].sender = U \/ store[k].receiver = U)
        /\ U \notin store[k].deletedBy}

Quiescent ==
    /\ \A i \in 1..Len(tasks) : tasks[i].pc = "done"
    /\ \A k \in 1..Len(autoReplies) : autoReplies[k].pc = "done"

\* A reply to message id exists: from its receiver to its sender, in its
\* conversation
RepliedTo(id) ==
    \E k \in 1..Len(autoReplies) :
        /\ autoReplies[k].msg = id
        /\ autoReplies[k].reply # NoMsg
        /\ MsgById(autoReplies[k].reply).sender = MsgById(id).receiver
        /\ MsgById(autoReplies[k].reply).receiver = MsgById(id).sender
        /\ MsgById(autoReplies[k].reply).conversationId = MsgById(id).conversationId

\* C15: once nothing is in flight, a message persisted (and acknowledged)
\* through send:message or persisted through the HTTP endpoint has a reply
\* exactly when its receiver is a sample user (unless a store operation of
\* its reply process rejected), whether or not the sender is still connected.
C15_AutoReplyTrigger ==
    (Alive /\ Quiescent) =>
        /\ \A i \in 1..Len(tasks) :
              (tasks[i].msg # NoMsg /\ tasks[i].nSent = 1) =>
                  (MsgById(tasks[i].msg).receiver \in SampleUsers <=> RepliedTo(tasks[i].msg))
        /\ \A k \in 1..Len(autoReplies) :
              ~autoReplies[k].failed =>
                  (MsgById(autoReplies[k].msg).receiver \in SampleUsers
                      <=> RepliedTo(autoReplies[k].msg))

\* C16: a reply created while a socket was registered for the original
\* sender was emitted to that socket.
C16_AutoReplyPush ==
    \A k \in 1..Len(autoReplies) :
        (autoReplies[k].reply # NoMsg /\ autoReplies[k].regSock # NoSock)
            => autoReplies[k].regSock \in autoReplies[k].pushTo

\* The last event handled was a typing event
TypingHandledLast == transient.on \in {"typing:start", "typing:stop"}

\* C21: a typing event with a payload changes no message, no cache list and
\* no presence entry, and its notification, carrying the identity of the
\* sender's handshake, is emitted to the socket registered for the addressed
\* peer exactly when the presence map holds one, and to nobody else.
C21_TypingTransient ==
    /\ [](TypingHandledLast =>
            /\ transient.userId = socks[transient.from].token.userId
            /\ transient.to = IF transient.reg # NoSock THEN {transient.reg} ELSE {})
    /\ [][(transient' # transient /\ transient'.on \in {"typing:start", "typing:stop"})
             => UNCHANGED <<store, cache, onlineUsers>>]_vars

\* C22: the messages:read notification of reader R goes only to sockets of
\* the other participant of the conversation it names, who is the sender of
\* every message the call marked read.
C22_ReadReceiptTarget ==
    (transient.on = "messages:read" /\ transient.to # {}) =>
        /\ \A x \in transient.to : socks[x].userId = transient.receiverId
        /\ transient.conversationId =
               getConversationId(transient.userId, transient.receiverId)
        /\ \A id \in transient.marked : MsgById(id).sender = transient.receiverId

\* The documented table of message categories: category and triggers
DocumentedTriggers ==
    [greetings    |-> {"hi", "hello", "hey", "good morning"},
     questions    |-> {"what", "why", "how", "when", "?"},
     workRelated  |-> {"work", "project", "team", "meeting"},
     jobsCareer   |-> {"job", "career", "opportunity", "hiring"},
     technology   |-> {"tech", "code", "programming", "ai"},
     appreciation |-> {"thanks", "appreciate", "awesome"},
     closing      |-> {"bye", "goodbye", "talk later"}]

\* No expression of categorizeMessage matches the text
NoTrigger(text) ==
    \A i \in 1..Len(Patterns) : ~Test(toLowerCase(text), Patterns[i].alternatives)

\* C23: the reply is a template of the category chosen for the text; a
\* documented trigger sent on its own gets its documented category, a text
\* containing "hello" gets a greeting, the documented test scenarios get
\* question, career and technology, and a text without trigger gets general.
C23_ReplyCategory ==
    trial # NoTrial =>
        /\ \E i \in DOMAIN replyTemplates[trial.category] :
               replyTemplates[trial.category][i] = trial.reply
        /\ \A c \in DOMAIN DocumentedTriggers :
               toLowerCase(trial.text) \in DocumentedTriggers[c] => trial.category = c
        /\ Occurs(toLowerCase(trial.text), "hello") => trial.category = "greetings"
        /\ trial.text = "What do you think about the latest tech trends?"
               => trial.category = "questions"
        /\ trial.text = "I'm looking for job opportunities"
               => trial.category = "jobsCareer"
        /\ trial.text = "Have you worked with React before?"
               => trial.category = "technology"
        /\ NoTrigger(trial.text) => trial.category = "general"

\* The identity of the token a socket was admitted with
HandshakeId(s) == socks[s].token.userId

\* C24: a message persisted by the send:message handler has the identity of
\* the valid token of its socket's handshake as sender, and a typing or
\* messages:read notification carries that identity, whatever the payload
\* names.
C24_SenderAuthenticity ==
    /\ \A i \in 1..Len(tasks) :
          tasks[i].msg # NoMsg =>
              /\ socks[tasks[i].sock].token.kind = "valid"
              /\ MsgById(tasks[i].msg).sender = HandshakeId(tasks[i].sock)
    /\ transient.on # "none" =>
          /\ socks[transient.from].token.kind = "valid"
          /\ transient.userId = HandshakeId(transient.from)

\* C24 witness: a message was persisted for a payload naming another
\* identity than the socket's, and a notification was emitted to a peer.
C24_Witness ==
    /\ \E i \in 1..Len(tasks) :
          /\ tasks[i].msg # NoMsg
          /\ tasks[i].data.userId # HandshakeId(tasks[i].sock)
    /\ transient.on # "none"
    /\ transient.to # {}
    /\ transient.from \notin transient.to

\* C25: every stored message carries the conversation id of its own sender
\* and receiver, so two messages between the same two identities carry the
\* same id in either direction.
C25_ConversationKey ==
    /\ \A k \in 1..Len(store) :
          store[k].conversationId = getConversationId(store[k].sender, store[k].receiver)
    /\ \A k, j \in 1..Len(store) :
          {store[k].sender, store[k].receiver} = {store[j].sender, store[j].receiver}
              => store[k].conversationId = store[j].conversationId

\* A step that updates stored messages without inserting one
MarkStep == Len(store') = Len(store) /\ store' # store

C27_ErrorMeansNotStored ==
    \A i \in 1..Len(tasks) :
        tasks[i].nErr > 0 => (tasks[i].msg = NoMsg /\ tasks[i].rcv = {})

\* The sum of unreadCount over a list of conversation summaries
RECURSIVE SumUnread(_)
SumUnread(summaries) ==
    IF summaries = <<>> THEN 0
    ELSE Head(summaries).unreadCount + SumUnread(Tail(summaries))

Replies == {autoReplies[k].reply : k \in 1..Len(autoReplies)} \ {NoMsg}

\* C29: a message has at most one reply process and so at most one reply; no
\* reply process is ever started for a reply, also between two sample
\* users; the replies never outnumber the messages that were posted, so the
\* collection stops growing once the posts have ended.
C29_NoCascade ==
    /\ \A k, j \in 1..Len(autoReplies) :
          k # j => /\ autoReplies[k].msg # autoReplies[j].msg
                   /\ autoReplies[k].reply = NoMsg
                         \/ autoReplies[k].reply # autoReplies[j].reply
    /\ \A k \in 1..Len(autoReplies) : autoReplies[k].msg \notin Replies
    /\ 2 * Cardinality(Replies) <= Len(store)

\* C29 witness: every reply process is over, two posts were answered, one of
\* them between sample users, and the replies were left unanswered.
C29_Witness ==
    /\ \A k \in 1..Len(autoReplies) : autoReplies[k].pc = "done"
    /\ Cardinality(Replies) = 2
    /\ Len(store) = 4
    /\ \E r \in Replies :
          MsgById(r).sender \in SampleUsers /\ MsgById(r).receiver \in SampleUsers

\* C30: while the process serves, an identity is a key of the presence map
\* (the keys are what get:online_users replies) exactly when it has an open
\* authenticated connection, and a disconnect that broadcasts user:offline
\* for an identity leaves that identity without an open connection.
C30_OfflineNoticeAccuracy ==
    /\ [](Alive => \A u \in Users : u \in OnlineKeys <=> HasOpenSocket(u))
    /\ [][\A s \in Socks :
             socks'[s].nOffline > socks[s].nOffline
                => ~ \E x \in Socks : /\ socks'[x].st = "open"
                                     /\ socks'[x].userId = socks[s].userId]_vars
====
